---- MODULE Spec2Model ----
(***************************************************************************)
(* A model of the sse-simplified transports: SseServer (server-sse.ts),    *)
(* SseClient (client-sse.ts) and the HTTP layer that owns the session      *)
(* table (test.ts, setupServer).  One server transport, one client         *)
(* transport, a bounded number of POST requests.                           *)
(***************************************************************************)
EXTENDS Integers, Sequences, FiniteSets, TLC

\* ------------------------------------------------------------------ bounds
\* POST requests that exist over a run (client sends that issue a POST and
\* POSTs of other peers together).
MaxReqs == 2
\* POSTs of other peers over a run.
MaxPosts == 1
\* 'data' chunks a request body is delivered in.
MaxChunks == 2
\* Calls of send() per transport over a run.
MaxSends == 1
\* Calls of send() per transport over a run that studies bursts of sends.
MaxBurst == 2
\* Calls of close() per transport over a run.
MaxCloses == 1
\* Calls of close() on the client over a run that studies repeated closes.
MaxRepeats == 2
\* 'error' events the event stream reports over a run.
MaxStreamErrors == 1

\* ------------------------------------------------------------ JSON values
\* A JavaScript value as the transports see it: kind is "object", "scalar"
\* (a JSON value that is no object) or "undefined"; a property that is absent
\* or undefined reads "UNDEF".  Scalars are written as their JSON text.
UNDEF == "UNDEF"

Mk(j, i, m, p, r, e) ==
    [kind |-> "object", jsonrpc |-> j, id |-> i, method |-> m,
     params |-> p, result |-> r, error |-> e]

ScalarValue ==
    [kind |-> "scalar", jsonrpc |-> UNDEF, id |-> UNDEF, method |-> UNDEF,
     params |-> UNDEF, result |-> UNDEF, error |-> UNDEF]

UndefinedValue ==
    [kind |-> "undefined", jsonrpc |-> UNDEF, id |-> UNDEF, method |-> UNDEF,
     params |-> UNDEF, result |-> UNDEF, error |-> UNDEF]

\* createRequest / createNotification / createResponse / createError
createRequest(id, method, params) == Mk("2.0", id, method, params, UNDEF, UNDEF)
createNotification(method, params) == Mk("2.0", UNDEF, method, params, UNDEF, UNDEF)
createResponse(id, result) == Mk("2.0", id, UNDEF, UNDEF, result, UNDEF)
createError(id, err) == Mk("2.0", id, UNDEF, UNDEF, UNDEF, err)

ValidMsgs ==
    { createRequest("1", "echo", "{x}"),
      createNotification("ping", UNDEF),
      createResponse("1", "{r}"),
      createError("'a'", "{code,message}") }

\* One message per way of violating the schema: no jsonrpc, a wrong version,
\* result and error together, an id that is neither a string nor a number.
InvalidMsgs ==
    { Mk(UNDEF, "1", "echo", UNDEF, UNDEF, UNDEF),
      Mk("1.0", "1", "echo", UNDEF, UNDEF, UNDEF),
      Mk("2.0", "1", UNDEF, UNDEF, "{r}", "{code,message}"),
      Mk("2.0", "true", "echo", UNDEF, UNDEF, UNDEF) }

\* -------------------------------------------------------------- JSON text
\* A text is a sequence of tokens; a body that arrives in chunks is the
\* concatenation of the chunks' tokens.
Fields == <<"jsonrpc", "id", "method", "params", "result", "error">>
ObjOpen == [k |-> "{", v |-> ""]
ObjClose == [k |-> "}", v |-> ""]
Lit(v) == [k |-> "lit", v |-> v]

\* JSON.stringify of the value of a property: a number JSON has no text
\* for (NaN, Infinity) is written as null, every JSON value as itself.
StringifyValue(v) == IF v = "{x:NaN}" THEN "{x:null}" ELSE v

\* JSON.stringify inside a template literal: undefined renders as the text
\* "undefined", a property whose value is undefined is left out.
JSONstringify(val) ==
    IF val.kind = "undefined" THEN <<Lit("undefined")>>
    ELSE IF val.kind = "scalar" THEN <<Lit("42")>>
    ELSE <<ObjOpen>>
         \o SelectSeq([i \in 1..Len(Fields) |->
                          [k |-> Fields[i], v |-> StringifyValue(val[Fields[i]])]],
                      LAMBDA t : t.v # UNDEF)
         \o <<ObjClose>>

\* Whether JSON.parse accepts the text (it throws a SyntaxError otherwise).
CanParse(text) ==
    \/ text = <<Lit("42")>>
    \/ /\ Len(text) >= 2
       /\ text[1] = ObjOpen
       /\ text[Len(text)] = ObjClose
       /\ \A i \in 2..(Len(text) - 1) : text[i].k \in {Fields[j] : j \in 1..Len(Fields)}

\* The value of the last member named f, UNDEF when there is none.
Member(text, f) ==
    LET at == {i \in 1..Len(text) : text[i].k = f}
    IN IF at = {} THEN UNDEF
       ELSE text[CHOOSE i \in at : \A j \in at : j <= i].v

\* Variant: a parse that loses the params member.
JSONparse_NoParams(text) ==
    IF text = <<Lit("42")>> THEN ScalarValue
    ELSE Mk(Member(text, "jsonrpc"), Member(text, "id"), Member(text, "method"),
            UNDEF, Member(text, "result"), Member(text, "error"))

\* JSON.parse of a text CanParse accepts.
JSONparse(text) ==
    IF text = <<Lit("42")>> THEN ScalarValue
    ELSE Mk(Member(text, "jsonrpc"), Member(text, "id"), Member(text, "method"),
            Member(text, "params"), Member(text, "result"), Member(text, "error"))

\* Texts JSON.parse rejects: a truncated object, the empty body.
GarbageTexts == { <<ObjOpen>>, <<>> }

\* ------------------------------------------------------ JSONRPCMessageSchema
IsNumberTok(x) == x \in {"1", "2"}
IsStringTok(x) == x \in {"'a'", "'b'"}
IsIdTok(x) == IsNumberTok(x) \/ IsStringTok(x)

\* JSONRPCMessageSchema.parse succeeds: the version literal, an id that is a
\* string or a number when present, and exactly one of the four shapes.
SchemaOk(val) ==
    /\ val.kind = "object"
    /\ val.jsonrpc = "2.0"
    /\ val.id = UNDEF \/ IsIdTok(val.id)
    /\ \/ /\ val.method # UNDEF /\ val.result = UNDEF /\ val.error = UNDEF
       \/ /\ val.method = UNDEF /\ val.result # UNDEF /\ val.error = UNDEF
          /\ val.id # UNDEF
       \/ /\ val.method = UNDEF /\ val.result = UNDEF
          /\ val.error = "{code,message}" /\ val.id # UNDEF


\* -------------------------------------------------------------------- URLs
\* The client connects to http://localhost:3000/sse (test.ts:217).
ConnectionOrigin == "http://localhost:3000"
PostPath == "/message"

\* The _endpoint a server transport is constructed with: the relative POST
\* path the HTTP layers use, an absolute address of another origin, and a
\* string that is no address.
EndpointParams == {"/message", "http://evil.example/message", "http://["}

\* encodeURI: letters, digits and the reserved characters stay, "[" is escaped.
encodeURI(s) == IF s = "http://[" THEN "http://%5B" ELSE s

\* Session identifiers: "t1" is the one randomUUID returned to the transport,
\* "t2" names no session.
Tokens == {"t1", "t2"}

\* Variant: a handshake frame that names another session.
EndpointData_Other(ep, sid) == <<[k |-> "url", v |-> encodeURI(ep)], [k |-> "sessionId", v |-> "t2"]>>

\* The payload of the handshake frame:
\* `${encodeURI(this._endpoint)}?sessionId=${this._sessionId}`
EndpointData(ep, sid) == <<[k |-> "url", v |-> encodeURI(ep)], [k |-> "sessionId", v |-> sid]>>

\* new URL(data, this._url): a relative reference takes the origin of the
\* base, an absolute address keeps its own, a malformed one throws.
ResolveURL(data) ==
    IF Len(data) # 2 \/ data[1].k # "url" \/ data[1].v = "http://%5B"
    THEN [ok |-> FALSE, origin |-> "", path |-> "", sessionId |-> ""]
    ELSE IF data[1].v = "/message"
    THEN [ok |-> TRUE, origin |-> ConnectionOrigin, path |-> "/message",
          sessionId |-> data[2].v]
    ELSE [ok |-> TRUE, origin |-> "http://evil.example", path |-> "/message",
          sessionId |-> data[2].v]

NoEndpoint == [ok |-> FALSE, origin |-> "", path |-> "", sessionId |-> ""]

\* ---------------------------------------------------------------- state
VARIABLES
    \* SseServer
    sseResponse,        \* this._sseResponse is set
    sessionId,          \* this._sessionId
    srvEndpoint,        \* this._endpoint
    sOnclose,           \* invocations of onclose
    sOnerror,           \* invocations of onerror
    sOnmessage,         \* invocations of onmessage, in order
    sCloses,            \* calls of close()
    sSends,             \* calls of send()
    sCallback,          \* what the application's onmessage callback does
    sSent,              \* the messages passed to the calls of send() that succeeded
    \* the ServerResponse of the GET request (this.res)
    resHeads,           \* header blocks written
    resFrames,          \* event frames written, in order
    resEnded,           \* end() was called or the connection is gone
    resCloseListeners,  \* listeners registered for 'close'
    resCloseEmitted,    \* 'close' was emitted
    resLateWrites,      \* writes attempted after the stream ended
    \* the HTTP layer
    connections,        \* the session table (test.ts:45)
    reqs,               \* the POST requests
    \* SseClient
    eventSource,        \* this._eventSource: "none", "open" or "closed"
    esOpened,           \* EventSource objects created
    endpoint,           \* this._endpoint
    abortController,    \* this._abortController: "none", "armed" or "aborted"
    startPromise,       \* the promise start() returned
    delivered,          \* frames of the stream dispatched to the client so far
    cOnclose,
    cOnerror,
    cOnmessage,
    cCloses,            \* calls of close()
    cSends,             \* calls of send()
    esErrors,           \* 'error' events of the event stream
    \* the outcome of the last call of start, send or close
    ret

srvVars == <<sseResponse, sessionId, srvEndpoint, sCloses, sSends, sCallback, sSent>>
srvCbs == <<sOnclose, sOnerror, sOnmessage>>
resVars == <<resHeads, resFrames, resEnded, resCloseListeners, resCloseEmitted, resLateWrites>>
httpVars == <<connections, reqs>>
cliVars == <<eventSource, esOpened, endpoint, abortController, startPromise, delivered,
            cCloses, cSends, esErrors>>
cliCbs == <<cOnclose, cOnerror, cOnmessage>>
vars == <<srvVars, srvCbs, resVars, httpVars, cliVars, cliCbs, ret>>

ReqIds == 1..MaxReqs

\* What the application installs as onmessage: a callback that returns, one
\* that throws, and the echo handler of test.ts:58-141, which answers a
\* request through send() before its first await.
Callbacks == {"returns", "throws", "sends"}

NoReq ==
    [st |-> "free", from |-> "", origin |-> "", session |-> "", ctype |-> "",
     chunks |-> <<>>, body |-> <<>>, status |-> <<>>, hpm |-> "",
     sent |-> UndefinedValue, cst |-> ""]

Init ==
    /\ sseResponse = FALSE
    /\ sessionId = "t1"
    /\ srvEndpoint \in EndpointParams
    /\ sOnclose = 0 /\ sOnerror = 0 /\ sOnmessage = <<>>
    /\ sCloses = 0 /\ sSends = 0
    /\ sCallback \in Callbacks /\ sSent = <<>>
    /\ resHeads = 0 /\ resFrames = <<>> /\ resEnded = FALSE
    /\ resCloseListeners = 0 /\ resCloseEmitted = FALSE /\ resLateWrites = 0
    /\ connections = {}
    /\ reqs = [r \in ReqIds |-> NoReq]
    /\ eventSource = "none" /\ esOpened = 0 /\ endpoint = NoEndpoint
    /\ abortController = "none" /\ startPromise = "none" /\ delivered = 0
    /\ cOnclose = 0 /\ cOnerror = 0 /\ cOnmessage = <<>> /\ cCloses = 0
    /\ cSends = 0 /\ esErrors = 0
    /\ ret = [op |-> "none", out |-> "none"]


Ret(op, out) == [op |-> op, out |-> out]

\* ------------------------------------------------------------- SseServer
\* Variant: a stream that puts a frame in front of those written before.
ResWrite_Prepend(frame) ==
    /\ resFrames' = <<frame>> \o resFrames
    /\ UNCHANGED resLateWrites

\* res.write on the GET response: an ended stream takes no more frames.
ResWrite(frame) ==
    IF resEnded
    THEN /\ resLateWrites' = resLateWrites + 1
         /\ UNCHANGED resFrames
    ELSE /\ resFrames' = Append(resFrames, frame)
         /\ UNCHANGED resLateWrites

\* Variant: start() without the guard of line 35.
ServerStartOutcome_NoGuard ==
    IF resHeads > 0 THEN "ERR_HTTP_HEADERS_SENT" ELSE "ok"

\* Variant: start() over a response that takes a second header block.
ServerStartOutcome_GuardOnly ==
    IF sseResponse THEN "SSE server already started!" ELSE "ok"

\* start(): the guard of line 35, then res.writeHead, which throws once the
\* response's headers have been sent.
ServerStartOutcome ==
    IF sseResponse THEN "SSE server already started!"
    ELSE IF resHeads > 0 THEN "ERR_HTTP_HEADERS_SENT"
    ELSE "ok"

\* sseServer.start().then(() => connections.set(sseServer.sessionId, sseServer))
ServerStart ==
    /\ ret' = Ret("server.start", ServerStartOutcome)
    /\ IF ServerStartOutcome = "ok"
       THEN /\ resHeads' = resHeads + 1
            /\ ResWrite([event |-> "endpoint", data |-> EndpointData(srvEndpoint, sessionId)])
            /\ sseResponse' = TRUE
            /\ resCloseListeners' = resCloseListeners + 1
            /\ connections' = connections \cup {sessionId}
            /\ UNCHANGED <<resEnded, resCloseEmitted>>
       ELSE UNCHANGED <<resVars, sseResponse, connections>>
    /\ UNCHANGED <<sessionId, srvEndpoint, sCloses, sSends, sCallback, sSent, srvCbs, reqs,
                   cliVars, cliCbs>>

\* close(): ends the stream if it is held, clears the handle, invokes onclose
\* (which removes the session from the table, test.ts:143-146).
ServerClose ==
    /\ sCloses < MaxCloses
    /\ sCloses' = sCloses + 1
    /\ resEnded' = (resEnded \/ sseResponse)
    /\ sseResponse' = FALSE
    /\ sOnclose' = sOnclose + 1
    /\ connections' = connections \ {sessionId}
    /\ ret' = Ret("server.close", "ok")
    /\ UNCHANGED <<sessionId, srvEndpoint, sSends, sCallback, sSent, sOnerror, sOnmessage,
                   resHeads, resFrames,
                   resCloseListeners, resCloseEmitted, resLateWrites, reqs, cliVars, cliCbs>>

\* The response emits 'close', once: after end(), or when the peer or the
\* network drops the connection.  Every registered listener runs.
ResClose ==
    /\ resHeads > 0
    /\ ~resCloseEmitted
    /\ resCloseEmitted' = TRUE
    /\ resEnded' = TRUE
    /\ sseResponse' = IF resCloseListeners > 0 THEN FALSE ELSE sseResponse
    /\ sOnclose' = sOnclose + resCloseListeners
    /\ connections' = IF resCloseListeners > 0
                      THEN connections \ {sessionId} ELSE connections
    /\ UNCHANGED <<sessionId, srvEndpoint, sCloses, sSends, sCallback, sSent, sOnerror, sOnmessage,
                   resHeads,
                   resFrames, resCloseListeners, resLateWrites, reqs, cliVars, cliCbs, ret>>

\* Variant: send() without the guard of line 115.
ServerSendOutcome_NoGuard == "ok"

\* send(): the guard of line 115.
ServerSendOutcome == IF ~sseResponse THEN "Not connected" ELSE "ok"

\* The body of send(message): it has no await, so it runs to its end when it
\* is called.
SendCall(m) ==
    /\ sSends' = sSends + 1
    /\ ret' = Ret("server.send", ServerSendOutcome)
    /\ IF ServerSendOutcome = "ok"
       THEN /\ ResWrite([event |-> "message", data |-> JSONstringify(m)])
            /\ sSent' = Append(sSent, m)
       ELSE UNCHANGED <<resFrames, resLateWrites, sSent>>

\* send(message) called by the application outside a message callback.
ServerSendCall(m) ==
    /\ SendCall(m)
    /\ UNCHANGED <<sseResponse, sessionId, srvEndpoint, sCloses, sCallback, srvCbs, resHeads,
                   resEnded, resCloseListeners, resCloseEmitted, httpVars, cliVars, cliCbs>>

ServerSend(m) == sSends < MaxSends /\ ServerSendCall(m)

\* One send of a burst of sends (test.ts:343-353 issues them back to back).
ServerSendBurst(m) == sSends < MaxBurst /\ ServerSendCall(m)

\* ------------------------------------------------------- POST requests
\* The body text in n chunks: one token in each of the first n-1, the rest
\* in the last.  An empty body has no chunk.
Split(text, n) ==
    IF text = <<>> THEN <<>>
    ELSE [i \in 1..n |-> IF i < n THEN <<text[i]>> ELSE SubSeq(text, n, Len(text))]

FreeReq(r) == reqs[r].st = "free" /\ \A q \in ReqIds : q < r => reqs[q].st # "free"

\* A peer POSTs to /message?sessionId=sid.
RawPostCall(sid, ctype, text, n) ==
    /\ n <= Len(text) \/ n = 1
    /\ \E r \in ReqIds :
         /\ FreeReq(r)
         /\ reqs' = [reqs EXCEPT ![r] =
                [st |-> "inflight", from |-> "raw", origin |-> ConnectionOrigin,
                 session |-> sid, ctype |-> ctype, chunks |-> Split(text, n),
                 body |-> <<>>, status |-> <<>>, hpm |-> "",
                 sent |-> UndefinedValue, cst |-> ""]]
    /\ UNCHANGED <<srvVars, srvCbs, resVars, connections, cliVars, cliCbs, ret>>

RawPosted == Cardinality({q \in ReqIds : reqs[q].from = "raw"})
RawPost(sid, ctype, text, n) == RawPosted < MaxPosts /\ RawPostCall(sid, ctype, text, n)

\* One of several POSTs a peer issues together.
RawPostBurst(sid, ctype, text, n) == RawPosted < MaxBurst /\ RawPostCall(sid, ctype, text, n)

\* Variant: handlePostMessage without the check of the stream handle.
PostRefused_Never == FALSE

\* handlePostMessage, lines 65-69: whether the call is refused.
PostRefused == ~sseResponse

\* handlePostMessage(req, res) up to its return: status 500 and a rejection,
\* or the 'data' and 'end' listeners registered.
HandlePostMessage(r) ==
    /\ reqs' = IF PostRefused
               THEN [reqs EXCEPT ![r].status = Append(@, 500),
                                 ![r].hpm = "SSE connection not established",
                                 ![r].st = "done"]
               ELSE [reqs EXCEPT ![r].hpm = "resolved", ![r].st = "reading"]
    /\ UNCHANGED <<srvVars, srvCbs, resVars, connections, cliVars, cliCbs, ret>>

\* Variant: a request handler that forwards every POST to the transport.
HttpPost_NoTable(r) ==
    /\ reqs[r].st = "inflight"
    /\ reqs[r].origin = ConnectionOrigin
    /\ HandlePostMessage(r)

\* The request handler of the test server: the session table decides.
HttpPost(r) ==
    /\ reqs[r].st = "inflight"
    /\ reqs[r].origin = ConnectionOrigin
    /\ IF reqs[r].session \notin connections
       THEN /\ reqs' = [reqs EXCEPT ![r].status = Append(@, 404), ![r].st = "done",
                                    ![r].hpm = "not called"]
            /\ UNCHANGED <<srvVars, srvCbs, resVars, connections, cliVars, cliCbs, ret>>
       ELSE HandlePostMessage(r)

\* The request handler of the README: every POST that names a session is
\* handed to the transport.
DirectPost(r) ==
    /\ reqs[r].st = "inflight"
    /\ reqs[r].origin = ConnectionOrigin
    /\ HandlePostMessage(r)

\* Variant: the chunk is put in front of the body read so far.
ReqData_Prepend(r) ==
    /\ reqs[r].st = "reading"
    /\ reqs[r].chunks # <<>>
    /\ reqs' = [reqs EXCEPT ![r].body = Head(reqs[r].chunks) \o @,
                            ![r].chunks = Tail(@)]
    /\ UNCHANGED <<srvVars, srvCbs, resVars, connections, cliVars, cliCbs, ret>>

\* Variant: one body shared by the requests of the transport.
ReqData_Shared(r) ==
    /\ reqs[r].st = "reading"
    /\ reqs[r].chunks # <<>>
    /\ reqs' = [q \in ReqIds |->
                  IF q = r
                  THEN [reqs[q] EXCEPT !.body = @ \o Head(reqs[r].chunks), !.chunks = Tail(@)]
                  ELSE IF reqs[q].st = "reading"
                  THEN [reqs[q] EXCEPT !.body = @ \o Head(reqs[r].chunks)]
                  ELSE reqs[q]]
    /\ UNCHANGED <<srvVars, srvCbs, resVars, connections, cliVars, cliCbs, ret>>

\* req.on("data"): body += chunk.toString()
ReqData(r) ==
    /\ reqs[r].st = "reading"
    /\ reqs[r].chunks # <<>>
    /\ reqs' = [reqs EXCEPT ![r].body = @ \o Head(reqs[r].chunks),
                            ![r].chunks = Tail(@)]
    /\ UNCHANGED <<srvVars, srvCbs, resVars, connections, cliVars, cliCbs, ret>>

Eff(e, code) == [e |-> e, code |-> code]

\* contentType.includes("application/json")
JsonContentTypes == {"application/json", "application/json; charset=utf-8"}
ContentTypeOk(ctype) == ctype \in JsonContentTypes

\* Variant: handleMessage without the schema.
HandleMessageTrace_NoValidate(val) == <<Eff("onmessage", 0)>>

\* The reply of the echo handler: createResponse(Number(message.id), message.params).
EchoReply(val) == createResponse(val.id, val.params)

\* What the installed callback does with a message, up to its first await:
\* a callback that throws makes handleMessage reject; the echo handler calls
\* send() for a request that carries an id.
CallbackTrace(val) ==
    IF sCallback = "throws" THEN <<Eff("reject", 0)>>
    ELSE IF sCallback = "sends" /\ val.method # UNDEF /\ val.id # UNDEF
    THEN <<Eff("send", 0)>>
    ELSE <<>>

\* handleMessage: what it does, in program order.  It is an async function:
\* a throw rejects the promise it returns.
HandleMessageTrace(val) ==
    IF SchemaOk(val) THEN <<Eff("onmessage", 0)>> \o CallbackTrace(val)
    ELSE <<Eff("onerror", 0), Eff("reject", 0)>>

\* Variant: the 'end' listener without the content-type check.
EndHandlerTrace_NoTypeCheck(ctype, body) ==
    IF ~CanParse(body)
    THEN <<Eff("writeHead", 400), Eff("onerror", 0)>>
    ELSE HandleMessageTrace(JSONparse(body)) \o <<Eff("writeHead", 202)>>

\* Variant: an 'end' listener whose catch reports the error and writes no
\* response.
EndHandlerTrace_NoReply(ctype, body) ==
    IF ~ContentTypeOk(ctype) \/ ~CanParse(body)
    THEN <<Eff("onerror", 0)>>
    ELSE HandleMessageTrace(JSONparse(body)) \o <<Eff("writeHead", 202)>>

\* Variant: an 'end' listener that awaits handleMessage inside its try, so
\* that a rejection reaches the catch.
EndHandlerTrace_Awaited(ctype, body) ==
    IF ~ContentTypeOk(ctype) \/ ~CanParse(body)
    THEN <<Eff("writeHead", 400), Eff("onerror", 0)>>
    ELSE LET h == HandleMessageTrace(JSONparse(body))
         IN IF \E i \in 1..Len(h) : h[i].e = "reject"
            THEN h \o <<Eff("writeHead", 400), Eff("onerror", 0)>>
            ELSE h \o <<Eff("writeHead", 202)>>

\* The 'end' listener: what it does, in program order.  The promise of
\* handleMessage is not awaited, so its rejection does not reach the catch.
EndHandlerTrace(ctype, body) ==
    IF ~ContentTypeOk(ctype) \/ ~CanParse(body)
    THEN <<Eff("writeHead", 400), Eff("onerror", 0)>>
    ELSE HandleMessageTrace(JSONparse(body)) \o <<Eff("writeHead", 202)>>

Count(tr, e) == Len(SelectSeq(tr, LAMBDA t : t.e = e))
Codes(tr) ==
    LET w == SelectSeq(tr, LAMBDA t : t.e = "writeHead")
    IN [i \in 1..Len(w) |-> w[i].code]
\* Whether a status was written before the message callback ran.
AckedFirst(tr) ==
    \E i, j \in 1..Len(tr) : i < j /\ tr[i].e = "writeHead" /\ tr[j].e = "onmessage"

\* req.on("end")
ReqEnd(r) ==
    /\ reqs[r].st = "reading"
    /\ reqs[r].chunks = <<>>
    /\ LET tr == EndHandlerTrace(reqs[r].ctype, reqs[r].body)
       IN /\ reqs' = [reqs EXCEPT ![r].status = @ \o Codes(tr), ![r].st = "done"]
          /\ sOnerror' = sOnerror + Count(tr, "onerror")
          /\ sOnmessage' = IF Count(tr, "onmessage") > 0
                           THEN Append(sOnmessage,
                                       [req |-> r, msg |-> JSONparse(reqs[r].body),
                                        acked |-> AckedFirst(tr)])
                           ELSE sOnmessage
          /\ IF Count(tr, "send") > 0
             THEN SendCall(EchoReply(JSONparse(reqs[r].body)))
             ELSE UNCHANGED <<sSends, ret, resFrames, resLateWrites, sSent>>
    /\ UNCHANGED <<sseResponse, sessionId, srvEndpoint, sCloses, sCallback, sOnclose, resHeads,
                   resEnded, resCloseListeners, resCloseEmitted, connections, cliVars, cliCbs>>


\* ------------------------------------------------------------- SseClient
\* start(): the guard of line 56.
ClientStartOutcome == IF eventSource # "none" THEN "SSE client already started!" ELSE "pending"

ClientStart ==
    /\ ret' = Ret("client.start", ClientStartOutcome)
    /\ IF ClientStartOutcome = "pending"
       THEN /\ eventSource' = "open"
            /\ esOpened' = esOpened + 1
            /\ abortController' = "armed"
            /\ startPromise' = "pending"
       ELSE UNCHANGED <<eventSource, esOpened, abortController, startPromise>>
    /\ UNCHANGED <<endpoint, delivered, cCloses, cSends, esErrors, cliCbs,
                   srvVars, srvCbs, resVars, httpVars>>

\* Variant: a promise that takes every resolve and reject.
Settle_Overwrite(p, how) == how

\* A promise settles once: resolve and reject after that do nothing.
Settle(p, how) == IF p = "pending" THEN how ELSE p

\* close() on the client's fields: abort, close the stream, onclose.  The
\* pending fetches of the aborted signal reject, and each send reports its
\* rejection to onerror (lines 138-141).
Pending(r) == reqs[r].from = "client" /\ reqs[r].cst = "pending"

\* Variant: a close() whose abort reaches no fetch.
Aborts_Never == FALSE

Aborts == abortController = "armed"

\* Variant: a close() that signals onclose the first time only.
CloseClient_Guarded(errs) ==
    /\ abortController' = IF abortController = "none" THEN "none" ELSE "aborted"
    /\ eventSource' = IF eventSource = "none" THEN "none" ELSE "closed"
    /\ cOnclose' = IF cOnclose = 0 THEN 1 ELSE cOnclose
    /\ reqs' = [r \in ReqIds |->
                  IF Pending(r) /\ Aborts THEN [reqs[r] EXCEPT !.cst = "aborted"] ELSE reqs[r]]
    /\ cOnerror' = cOnerror + errs
                   + (IF Aborts THEN Cardinality({r \in ReqIds : Pending(r)}) ELSE 0)

CloseClient(errs) ==
    /\ abortController' = IF abortController = "none" THEN "none" ELSE "aborted"
    /\ eventSource' = IF eventSource = "none" THEN "none" ELSE "closed"
    /\ cOnclose' = cOnclose + 1
    /\ reqs' = [r \in ReqIds |->
                  IF Pending(r) /\ Aborts THEN [reqs[r] EXCEPT !.cst = "aborted"] ELSE reqs[r]]
    /\ cOnerror' = cOnerror + errs
                   + (IF Aborts THEN Cardinality({r \in ReqIds : Pending(r)}) ELSE 0)

\* close() called by the application.
ClientCloseCall ==
    /\ cCloses' = cCloses + 1
    /\ CloseClient(0)
    /\ ret' = Ret("client.close", "ok")
    /\ UNCHANGED <<esOpened, endpoint, startPromise, delivered, cSends, esErrors, cOnmessage,
                   srvVars, srvCbs, resVars, connections>>

ClientClose == cCloses < MaxCloses /\ ClientCloseCall

\* One of several calls of close() on the same client.
ClientCloseAgain == cCloses < MaxRepeats /\ ClientCloseCall

\* Variant: the 'endpoint' listener without the comparison of origins.
EndpointOutcome_AnyOrigin(data) ==
    LET u == ResolveURL(data)
    IN IF ~u.ok THEN [stored |-> endpoint, accepted |-> FALSE]
       ELSE [stored |-> u, accepted |-> TRUE]

\* The 'endpoint' listener (lines 73-91): what it decides for a payload.
\* The address is stored before its origin is compared.
EndpointOutcome(data) ==
    LET u == ResolveURL(data)
    IN IF ~u.ok THEN [stored |-> endpoint, accepted |-> FALSE]
       ELSE [stored |-> u, accepted |-> (u.origin = ConnectionOrigin)]

OnEndpoint(data) ==
    LET o == EndpointOutcome(data)
    IN /\ endpoint' = o.stored
       /\ IF o.accepted
          THEN /\ startPromise' = Settle(startPromise, "resolved")
               /\ UNCHANGED <<eventSource, abortController, cliCbs, reqs>>
          ELSE /\ startPromise' = Settle(startPromise, "rejected")
               /\ CloseClient(1)
               /\ UNCHANGED cOnmessage

\* Variant: the onmessage handler without the schema.
MessageAccepted_ParseOnly(data) == CanParse(data)

\* The onmessage handler of the event stream (lines 93-104): the message it
\* hands to onmessage, or none.
MessageAccepted(data) == CanParse(data) /\ SchemaOk(JSONparse(data))

OnMessage(data) ==
    /\ IF MessageAccepted(data)
       THEN /\ cOnmessage' = Append(cOnmessage, JSONparse(data))
            /\ UNCHANGED cOnerror
       ELSE /\ cOnerror' = cOnerror + 1
            /\ UNCHANGED cOnmessage
    /\ UNCHANGED <<eventSource, abortController, endpoint, startPromise, cOnclose, reqs>>

\* The event stream dispatches the next frame the server wrote.
EsDeliver ==
    /\ eventSource = "open"
    /\ delivered < Len(resFrames)
    /\ delivered' = delivered + 1
    /\ LET f == resFrames[delivered + 1]
       IN IF f.event = "endpoint" THEN OnEndpoint(f.data) ELSE OnMessage(f.data)
    /\ UNCHANGED <<esOpened, cCloses, cSends, esErrors, srvVars, srvCbs, resVars,
                   connections, ret>>

\* this._eventSource.onerror (lines 67-71)
EsError ==
    /\ eventSource = "open"
    /\ esErrors < MaxStreamErrors
    /\ esErrors' = esErrors + 1
    /\ startPromise' = Settle(startPromise, "rejected")
    /\ cOnerror' = cOnerror + 1
    /\ UNCHANGED <<eventSource, esOpened, endpoint, abortController, delivered, cCloses, cSends,
                   cOnclose, cOnmessage, srvVars, srvCbs, resVars, httpVars, ret>>

\* Variant: send() without the guard of line 115.
ClientSendOutcome_NoGuard ==
    IF abortController = "aborted" THEN "AbortError" ELSE "pending"

\* send(): the guard of line 115, then fetch, which rejects at once when its
\* signal is already aborted.
ClientSendOutcome ==
    IF endpoint = NoEndpoint THEN "Not connected"
    ELSE IF abortController = "aborted" THEN "AbortError"
    ELSE "pending"

\* send(message); its body is written in n chunks.
ClientSendCall(m, n) ==
    /\ n <= Len(JSONstringify(m))
    /\ cSends' = cSends + 1
    /\ ret' = Ret("client.send", ClientSendOutcome)
    /\ IF ClientSendOutcome = "pending"
       THEN /\ \E r \in ReqIds :
                 /\ FreeReq(r)
                 /\ reqs' = [reqs EXCEPT ![r] =
                        [st |-> "inflight", from |-> "client", origin |-> endpoint.origin,
                         session |-> endpoint.sessionId, ctype |-> "application/json",
                         chunks |-> Split(JSONstringify(m), n), body |-> <<>>,
                         status |-> <<>>, hpm |-> "", sent |-> m, cst |-> "pending"]]
            /\ UNCHANGED cOnerror
       ELSE /\ cOnerror' = cOnerror + (IF ClientSendOutcome = "AbortError" THEN 1 ELSE 0)
            /\ UNCHANGED reqs
    /\ UNCHANGED <<eventSource, esOpened, endpoint, abortController, startPromise, delivered,
                   cCloses, esErrors, cOnclose, cOnmessage, srvVars, srvCbs, resVars,
                   connections>>

\* Variant: every status counts as success.
ResponseOk_Any(status) == TRUE

ClientSend(m, n) == cSends < MaxSends /\ ClientSendCall(m, n)

\* One send of a burst of sends that are in flight together.
ClientSendBurst(m) == cSends < MaxBurst /\ ClientSendCall(m, 1)

\* response.ok
ResponseOk(status) == status >= 200 /\ status <= 299

\* The response of a POST reaches the client (lines 131-141).
FetchReturn(r) ==
    /\ Pending(r)
    /\ reqs[r].status # <<>>
    /\ IF ResponseOk(reqs[r].status[1])
       THEN /\ reqs' = [reqs EXCEPT ![r].cst = "ok"]
            /\ UNCHANGED cOnerror
       ELSE /\ reqs' = [reqs EXCEPT ![r].cst = "http error"]
            /\ cOnerror' = cOnerror + 1
    /\ UNCHANGED <<cliVars, cOnclose, cOnmessage, srvVars, srvCbs, resVars, connections, ret>>

\* The POST fails on the network: fetch rejects.
FetchFail(r) ==
    /\ Pending(r)
    /\ reqs[r].status = <<>>
    /\ reqs' = [reqs EXCEPT ![r].cst = "network error"]
    /\ cOnerror' = cOnerror + 1
    /\ UNCHANGED <<cliVars, cOnclose, cOnmessage, srvVars, srvCbs, resVars, connections, ret>>


\* ------------------------------------------------------------ behaviours
ValidRequest == createRequest("1", "echo", "{x}")

\* What a peer may POST: the session it names, a content type, a body text
\* and the number of chunks the body arrives in.  Every kind of body is
\* posted to the transport's session in one chunk; a valid request is also
\* posted to a session that does not exist, and in several chunks.
JsonType == "application/json; charset=utf-8"
Post(sid, ctype, text, n) == [sid |-> sid, ctype |-> ctype, text |-> text, n |-> n]
RawPosts ==
    { Post(sessionId, JsonType, JSONstringify(m), 1) :
        m \in {ValidRequest, ScalarValue} \cup InvalidMsgs }
    \cup { Post(sessionId, JsonType, t, 1) : t \in GarbageTexts }
    \cup { Post(sessionId, c, JSONstringify(ValidRequest), 1) : c \in {"text/plain", UNDEF} }
    \cup { Post(sid, JsonType, JSONstringify(ValidRequest), 1) : sid \in Tokens }
    \cup { Post(sessionId, JsonType, JSONstringify(ValidRequest), n) : n \in 1..MaxChunks }

\* The bodies that decide validation, posted to the transport's session.
SchemaPosts ==
    { Post(sessionId, JsonType, JSONstringify(m), 1) : m \in {ValidRequest} \cup InvalidMsgs }
    \cup { Post(sessionId, JsonType, <<ObjOpen>>, 1) }

\* What the applications pass to send().  The type JSONRPCMessage is not
\* checked at run time: a value that is no message can be passed.
BadVersion == Mk("1.0", "1", "echo", UNDEF, UNDEF, UNDEF)
ClientMsgs == {ValidRequest, BadVersion}
ServerMsgsFew == {createResponse("1", "{r}"), UndefinedValue}
PushMsgs == {createResponse("1", "{r}"), UndefinedValue} \cup InvalidMsgs

PostArrives == \E r \in ReqIds : HttpPost(r) \/ DirectPost(r)
DirectArrives == \E r \in ReqIds : DirectPost(r)
BodyArrives == \E r \in ReqIds : ReqData(r) \/ ReqEnd(r)
PeerPosts == \E p \in RawPosts : RawPost(p.sid, p.ctype, p.text, p.n)
PeerPostsSchema == \E p \in SchemaPosts : RawPost(p.sid, p.ctype, p.text, p.n)
ServerSendsFew == \E m \in ServerMsgsFew : ServerSend(m)
ServerPushes == \E m \in PushMsgs : ServerSend(m)
ClientSends == \E m \in ClientMsgs, n \in 1..MaxChunks : ClientSend(m, n)
ClientSendsPlain == ClientSend(ValidRequest, 1)
FetchSettles == \E r \in ReqIds : FetchReturn(r) \/ FetchFail(r)

\* The HTTP layers construct the transport with the relative POST path; the
\* callback installed returns.
InitServer == Init /\ srvEndpoint = PostPath /\ sCallback = "returns"

\* Every handshake payload, under a callback that returns.
InitLife == Init /\ sCallback = "returns"

\* End to end: the client's POSTs reach the server transport through the
\* HTTP layer, the server's frames reach the client.
Next ==
    \/ ServerStart
    \/ ServerClose
    \/ ResClose
    \/ ClientStart
    \/ ClientClose
    \/ EsDeliver
    \/ ClientSends
    \/ PostArrives
    \/ BodyArrives
    \/ FetchSettles

Spec == InitServer /\ [][Next]_vars

\* The server transport under the POSTs of arbitrary peers.
NextPost ==
    \/ ServerStart
    \/ ServerClose
    \/ ResClose
    \/ PeerPosts
    \/ PostArrives
    \/ BodyArrives

SpecPost == InitServer /\ [][NextPost]_vars

\* Validation on both sides: POSTed bodies and pushed events of every kind.
NextValidate ==
    \/ ServerStart
    \/ ClientStart
    \/ ServerPushes
    \/ EsDeliver
    \/ PeerPostsSchema
    \/ DirectArrives
    \/ BodyArrives

SpecValidate == InitServer /\ [][NextValidate]_vars

\* The life cycles of both transports, with every kind of handshake payload.
NextLife ==
    \/ ServerStart
    \/ ServerClose
    \/ ResClose
    \/ ServerSendsFew
    \/ ClientStart
    \/ ClientClose
    \/ EsDeliver
    \/ EsError
    \/ ClientSendsPlain

SpecLife == InitLife /\ [][NextLife]_vars

\* A request the schema accepts whose params hold a number JSON has no
\* text for: { x: NaN }.
NaNRequest == createRequest("2", "echo", "{x:NaN}")

\* What the application pushes in a burst: a message of each valid shape,
\* the request with NaN, one message that violates the schema and one whose
\* text is no JSON.
BurstMsgs == ValidMsgs \cup {NaNRequest, BadVersion, UndefinedValue}
ServerBursts == \E m \in BurstMsgs : ServerSendBurst(m)

\* Pushed events of every kind, several per connection.
NextPush ==
    \/ ServerStart
    \/ ServerClose
    \/ ClientStart
    \/ ServerBursts
    \/ EsDeliver

SpecPush == InitServer /\ [][NextPush]_vars

ClientBursts == \E m \in {ValidRequest, createNotification("ping", UNDEF)} : ClientSendBurst(m)

\* Several POSTs of the client in flight together, and close().
NextAbort ==
    \/ ServerStart
    \/ ClientStart
    \/ EsDeliver
    \/ ClientBursts
    \/ ClientClose
    \/ PostArrives
    \/ BodyArrives
    \/ FetchSettles

SpecAbort == InitServer /\ [][NextAbort]_vars

\* Any callback may be installed on a transport of the HTTP layers.
InitCallback == Init /\ srvEndpoint = PostPath

\* The messages whose handling the callback decides.
CallbackPosts ==
    \E m \in {ValidRequest, createNotification("ping", UNDEF)} :
      RawPost(sessionId, JsonType, JSONstringify(m), 1)

\* What the application pushes between the POSTs.
ServerBurstsFew ==
    \E m \in {createResponse("1", "{r}"), createNotification("ping", UNDEF)} : ServerSendBurst(m)

\* POSTs handled under every callback, with sends of the application
\* between them.
NextCallback ==
    \/ ServerStart
    \/ ServerClose
    \/ ResClose
    \/ ServerBurstsFew
    \/ CallbackPosts
    \/ DirectArrives
    \/ BodyArrives

SpecCallback == InitCallback /\ [][NextCallback]_vars

\* close() called again and again on a client, at every point of its life.
NextClose ==
    \/ ServerStart
    \/ ClientStart
    \/ EsDeliver
    \/ EsError
    \/ ClientSendsPlain
    \/ ClientCloseAgain

SpecClose == InitLife /\ [][NextClose]_vars

\* A peer that POSTs several messages together, the same one twice among
\* them, each body in one chunk or in several.
ConcurrentPosts ==
    \E m \in {ValidRequest, createNotification("ping", UNDEF)}, n \in 1..MaxChunks :
      RawPostBurst(sessionId, JsonType, JSONstringify(m), n)

\* POSTs of one session whose bodies arrive interleaved.
NextConcurrent ==
    \/ ServerStart
    \/ ConcurrentPosts
    \/ DirectArrives
    \/ BodyArrives

SpecConcurrent == InitServer /\ [][NextConcurrent]_vars

TableArrives == \E r \in ReqIds : HttpPost(r)

\* The HTTP layer that owns the session table, under the POSTs of arbitrary
\* peers.
NextTable ==
    \/ ServerStart
    \/ ServerClose
    \/ ResClose
    \/ PeerPosts
    \/ TableArrives
    \/ BodyArrives

SpecTable == InitServer /\ [][NextTable]_vars


\* ---------------------------------------------------------------- claims
Texts(msgs) == {JSONstringify(m) : m \in msgs}
OnmessageOf(r) == {i \in 1..Len(sOnmessage) : sOnmessage[i].req = r}
\* The step in which the 'end' listener of request r runs.
EndStep(r) == reqs[r].st = "reading" /\ reqs[r].chunks = <<>> /\ reqs'[r].st = "done"
\* The step in which handlePostMessage is called for request r.
PostCall(r) == reqs[r].st = "inflight" /\ reqs'[r].st # "inflight" /\ reqs'[r].hpm # "not called"
EndpointFrames(frames) == Len(SelectSeq(frames, LAMBDA f : f.event = "endpoint"))
Called(op) == ret'.op = op /\ ret' # ret

\* C1: on the server and on the client, onmessage is invoked only with a
\* payload that parsed as JSON and passed the message schema; a body or a
\* pushed event that fails either never reaches onmessage.
C1_OnlyValidatedReachesOnmessage ==
    /\ \A i \in 1..Len(sOnmessage) :
         LET e == sOnmessage[i]
         IN /\ CanParse(reqs[e.req].body)
            /\ e.msg = JSONparse(reqs[e.req].body)
            /\ SchemaOk(e.msg)
            /\ e.msg \notin InvalidMsgs
    /\ \A r \in ReqIds :
         reqs[r].body \in Texts(InvalidMsgs) \cup GarbageTexts => OnmessageOf(r) = {}
    /\ \A i \in 1..Len(cOnmessage) :
         /\ SchemaOk(cOnmessage[i])
         /\ cOnmessage[i] \notin InvalidMsgs
    /\ Len(cOnmessage) =
         Cardinality({j \in 1..delivered :
                        /\ resFrames[j].event = "message"
                        /\ resFrames[j].data \in Texts(ValidMsgs)})

C1_Witness ==
    /\ \E r \in ReqIds : reqs[r].st = "done" /\ reqs[r].body \in Texts(InvalidMsgs)
    /\ sOnmessage = <<>>
    /\ delivered = 2
    /\ resFrames[2].data \in Texts(InvalidMsgs \cup {UndefinedValue})
    /\ cOnmessage = <<>>
    /\ cOnerror = 1

C3_BadTypeOrBodyIs400 ==
    [][\A r \in ReqIds :
         (EndStep(r) /\ (reqs[r].ctype \in {"text/plain", UNDEF} \/ reqs[r].body \in GarbageTexts))
         => /\ reqs'[r].status = <<400>>
            /\ sOnerror' = sOnerror + 1
            /\ sOnmessage' = sOnmessage
            /\ sseResponse' = sseResponse]_vars

C3_Witness ==
    \E r \in ReqIds :
      /\ reqs[r].st = "done" /\ reqs[r].hpm = "resolved"
      /\ reqs[r].body \in GarbageTexts
      /\ reqs[r].status = <<400>>
      /\ sOnerror = 1 /\ sOnmessage = <<>> /\ sseResponse

\* C4: a POST taken on an open transport, with a JSON content type and a body
\* that parses but violates the schema, gets status 400, onerror is invoked
\* and onmessage is not.
C4_SchemaViolationIs400 ==
    \A r \in ReqIds :
      (/\ reqs[r].st = "done" /\ reqs[r].hpm = "resolved"
       /\ reqs[r].ctype \in JsonContentTypes
       /\ reqs[r].body \in Texts(InvalidMsgs \cup {ScalarValue}))
      => /\ reqs[r].status = <<400>>
         /\ sOnerror >= 1
         /\ OnmessageOf(r) = {}

\* C5: handlePostMessage on a transport whose stream is not open writes
\* status 500, fails with 'SSE connection not established', registers no
\* body listener (the body is never read, then or later) and invokes no
\* callback.
C5_NotOpenIs500 ==
    [][\A r \in ReqIds :
         /\ (PostCall(r) /\ ~sseResponse)
            => /\ reqs'[r].status = <<500>>
               /\ reqs'[r].hpm = "SSE connection not established"
               /\ reqs'[r].st = "done"
               /\ reqs'[r].body = <<>> /\ reqs'[r].chunks = reqs[r].chunks
               /\ UNCHANGED srvCbs
         /\ reqs[r].hpm = "SSE connection not established" => reqs'[r] = reqs[r]]_vars

C5_Witness ==
    \E r \in ReqIds :
      /\ reqs[r].status = <<500>>
      /\ reqs[r].hpm = "SSE connection not established"
      /\ reqs[r].chunks # <<>> /\ reqs[r].body = <<>>
      /\ resHeads = 1 /\ ~sseResponse
      /\ sOnerror = 0 /\ sOnmessage = <<>>

\* C6: over any sequence of close() calls and 'close' events of the stream,
\* onclose is invoked at most once.
C6_OncloseAtMostOnce == sOnclose <= 1

\* C7: while a transport is started and not closed, start() fails with the
\* 'already started' condition and nothing is opened again: no header block,
\* no handshake frame, no 'close' listener, no event stream.
C7_SecondStartFails ==
    [][/\ sseResponse
          => /\ resHeads' = resHeads
             /\ resCloseListeners' = resCloseListeners
             /\ EndpointFrames(resFrames') = EndpointFrames(resFrames)
             /\ Called("server.start") => ret'.out = "SSE server already started!"
       /\ eventSource = "open"
          => /\ esOpened' = esOpened
             /\ Called("client.start") => ret'.out = "SSE client already started!"]_vars

C7_Witness ==
    /\ ret = Ret("server.start", "SSE server already started!")
    /\ sseResponse /\ resHeads = 1 /\ resCloseListeners = 1 /\ EndpointFrames(resFrames) = 1
    /\ eventSource = "open" /\ esOpened = 1

\* C8 as claimed: once close() was called or the stream disconnected, every
\* later start() fails and the transport is never open again.
C8_NoStartAfterAnyClose ==
    [][/\ (sCloses > 0 \/ resCloseEmitted)
          => /\ ~sseResponse'
             /\ Called("server.start") => ret'.out # "ok"
       /\ cOnclose > 0
          => /\ eventSource' # "open"
             /\ Called("client.start") => ret'.out # "pending"]_vars

\* C8, amended: once a transport that was started has been closed (by
\* close() or by a disconnect of its stream), every later start() fails and
\* the transport is never open again.
C8_NoResurrection ==
    [][/\ (resHeads > 0 /\ ~sseResponse)
          => /\ ~sseResponse'
             /\ Called("server.start") => ret'.out # "ok"
       /\ eventSource = "closed"
          => /\ eventSource' = "closed"
             /\ Called("client.start") => ret'.out # "pending"]_vars

C8_Witness ==
    /\ ret = Ret("server.start", "ERR_HTTP_HEADERS_SENT")
    /\ resHeads = 1 /\ ~sseResponse /\ sCloses = 1
    /\ eventSource = "closed"

\* C9: send() on a server transport whose stream is not open fails with
\* 'Not connected' and writes nothing; no frame is written, or attempted, on
\* a stream that has ended.
C9_SendWhenNotOpenFails ==
    [][/\ (sSends' # sSends /\ ~sseResponse)
          => /\ ret' = Ret("server.send", "Not connected")
             /\ resFrames' = resFrames
       /\ resEnded => resFrames' = resFrames
       /\ resLateWrites' = 0]_vars

C9_Witness ==
    /\ ret = Ret("server.send", "Not connected")
    /\ resHeads = 1 /\ resEnded /\ Len(resFrames) = 1

\* C10: send() on a client that has stored no reply address fails with 'Not
\* connected' and issues no POST; every POST the client issues goes to the
\* reply address stored at that time.
C10_SendBeforeHandshakeFails ==
    [][/\ (cSends' # cSends /\ endpoint = NoEndpoint)
          => /\ ret' = Ret("client.send", "Not connected")
             /\ reqs' = reqs
       /\ \A r \in ReqIds :
            (reqs[r].st = "free" /\ reqs'[r].st # "free" /\ reqs'[r].from = "client")
            => /\ endpoint # NoEndpoint
               /\ reqs'[r].origin = endpoint.origin
               /\ reqs'[r].session = endpoint.sessionId]_vars

C10_Witness ==
    /\ ret = Ret("client.send", "Not connected")
    /\ eventSource = "open" /\ startPromise = "pending" /\ delivered = 0
    /\ \A r \in ReqIds : reqs[r].st = "free"

\* The step in which the event stream dispatches an 'endpoint' event.
EndpointStep == delivered' = delivered + 1 /\ resFrames[delivered + 1].event = "endpoint"
EndpointPayload == ResolveURL(resFrames[delivered + 1].data)

\* C11: when the payload of the endpoint event resolves to an address of
\* another origin than the connection's, the completion of start() is
\* rejected, the event stream is closed and onclose is invoked.
C11_OriginMismatchFailsStart ==
    [][(EndpointStep /\ EndpointPayload.ok /\ EndpointPayload.origin # ConnectionOrigin)
       => /\ startPromise' = "rejected"
          /\ eventSource' = "closed"
          /\ abortController' = "aborted"
          /\ cOnclose' = cOnclose + 1]_vars

C11_Witness ==
    /\ delivered = 1 /\ esErrors = 0 /\ cCloses = 0
    /\ ResolveURL(resFrames[1].data).origin = "http://evil.example"
    /\ startPromise = "rejected" /\ eventSource = "closed" /\ cOnclose = 1

\* C12: the reply address the client stores is undefined or has the origin
\* of the connection, in every reachable state.
C12_MismatchNeverRetained ==
    endpoint = NoEndpoint \/ endpoint.origin = ConnectionOrigin

\* C13: start() resolves only in the step that receives an endpoint event
\* which validates, so a resolved start() has stored a reply address of the
\* connection's origin; it is rejected when the stream reports an error
\* before any endpoint event and when the payload is no address; once
\* rejected it is never resolved.
C13_StartCompletion ==
    [][/\ startPromise' = "resolved"
          => endpoint'.ok /\ endpoint'.origin = ConnectionOrigin
       /\ (startPromise # "resolved" /\ startPromise' = "resolved")
          => /\ EndpointStep
             /\ EndpointPayload.ok /\ EndpointPayload.origin = ConnectionOrigin
             /\ endpoint' = EndpointPayload
       /\ (esErrors' # esErrors /\ delivered = 0) => startPromise' = "rejected"
       /\ (EndpointStep /\ ~EndpointPayload.ok) => startPromise' = "rejected"
       /\ startPromise = "rejected" => startPromise' = "rejected"]_vars

C13_Witness ==
    /\ esErrors = 1 /\ delivered = 1
    /\ endpoint.ok /\ endpoint.origin = ConnectionOrigin
    /\ eventSource = "open"
    /\ startPromise = "rejected"

\* The step in which the event stream dispatches a 'message' event.
MessageStep == delivered' = delivered + 1 /\ resFrames[delivered + 1].event = "message"
MessageData == resFrames[delivered + 1].data

\* C14: a pushed message event whose data is no JSON or violates the schema
\* invokes onerror once and changes nothing else: onmessage and onclose are
\* not invoked, the stream stays as it was, the reply address is kept; a
\* valid message event, whatever came before it, is handed to onmessage.
C14_BadPushOnlyReportsError ==
    [][/\ (MessageStep /\ MessageData \in Texts({BadVersion, UndefinedValue}))
          => /\ cOnerror' = cOnerror + 1
             /\ cOnmessage' = cOnmessage
             /\ UNCHANGED <<eventSource, abortController, endpoint, startPromise, cOnclose>>
       /\ (MessageStep /\ MessageData \in Texts(ValidMsgs))
          => /\ cOnmessage' = Append(cOnmessage, JSONparse(MessageData))
             /\ cOnerror' = cOnerror]_vars

C14_Witness ==
    /\ delivered = 3
    /\ resFrames[2].data \in Texts({BadVersion, UndefinedValue})
    /\ resFrames[3].data \in Texts(ValidMsgs)
    /\ cOnerror = 1 /\ Len(cOnmessage) = 1
    /\ eventSource = "open" /\ cOnclose = 0 /\ endpoint.ok

ClientPosts(rs) == {r \in ReqIds : rs[r].from = "client"}
\* The step in which the POST of request r fails for the client.
SendFails(r) == Pending(r) /\ reqs'[r].cst \in {"http error", "network error"}

\* C15: a POST of send() that fails on the network or is answered with a
\* status outside 200..299 makes send() fail and invokes onerror exactly
\* once; no further POST is issued for it (one POST per call of send at
\* most) and the event stream, the reply address and the cancellation token
\* stay as they were.
C15_FailedPostReportedOnce ==
    [][/\ \A r \in ReqIds :
            /\ SendFails(r)
               => /\ cOnerror' = cOnerror + 1
                  /\ ClientPosts(reqs') = ClientPosts(reqs)
                  /\ UNCHANGED <<eventSource, endpoint, abortController, cOnclose, cSends>>
            /\ (/\ Pending(r) /\ reqs'[r].cst \notin {"pending", "aborted"}
                /\ (reqs[r].status = <<>> \/ reqs[r].status[1] \notin 200..299))
               => SendFails(r)
       /\ Cardinality(ClientPosts(reqs')) <= cSends']_vars

C15_Witness ==
    \E r \in ReqIds :
      /\ reqs[r].cst = "http error" /\ reqs[r].status \in {<<404>>, <<500>>}
      /\ cOnerror = 1 /\ cSends = 1 /\ ClientPosts(reqs) = {r}
      /\ eventSource = "open" /\ endpoint.ok /\ abortController = "armed"

\* C16: close() on the client makes every POST that is in flight fail: each
\* pending send() of the transport ends aborted in the step of close(), and
\* an aborted send() never completes with success afterwards.
C16_CloseAbortsInFlight ==
    [][\A r \in ReqIds :
         /\ (cCloses' # cCloses /\ Pending(r)) => reqs'[r].cst = "aborted"
         /\ (abortController = "aborted" /\ reqs[r].cst # "ok") => reqs'[r].cst # "ok"
         /\ reqs[r].cst = "aborted" => reqs'[r].cst = "aborted"]_vars

C16_Witness ==
    /\ cCloses = 1
    /\ Cardinality({r \in ReqIds : reqs[r].from = "client" /\ reqs[r].cst = "aborted"}) = 2
    /\ cOnerror = 2
    /\ abortController = "aborted"

\* C17: start() on a started transport, send() before the transport is
\* connected and send() after it was closed fail to their caller with
\* 'already started' or 'Not connected' and do not invoke onerror, on the
\* server and on the client.
C17_MisuseNotRoutedToOnerror ==
    [][/\ (Called("server.start") /\ sseResponse)
          => ret'.out = "SSE server already started!" /\ sOnerror' = sOnerror
       /\ (sSends' # sSends /\ ~sseResponse)
          => ret'.out = "Not connected" /\ sOnerror' = sOnerror
       /\ (Called("client.start") /\ eventSource = "open")
          => ret'.out = "SSE client already started!" /\ cOnerror' = cOnerror
       /\ (cSends' # cSends /\ (endpoint = NoEndpoint \/ eventSource = "closed"))
          => ret'.out = "Not connected" /\ cOnerror' = cOnerror]_vars

MessageFrames(frames) == SelectSeq(frames, LAMBDA f : f.event = "message")
MessageFrame(m) == [event |-> "message", data |-> JSONstringify(m)]

\* C18: the 'message' events written to the push stream are the messages
\* passed to the calls of send() that succeeded, in call order, one event
\* per call; a call that fails writes nothing.  The calls come from the
\* application and from message callbacks alike.
C18_PushOrderIsCallOrder ==
    [][/\ MessageFrames(resFrames') = [i \in 1..Len(sSent') |-> MessageFrame(sSent'[i])]
       /\ sSends' # sSends
          => IF ret'.out = "ok"
             THEN /\ Len(sSent') = Len(sSent) + 1
                  /\ resFrames' = Append(resFrames, MessageFrame(sSent'[Len(sSent')]))
             ELSE resFrames' = resFrames /\ sSent' = sSent
       /\ sSends' = sSends => resFrames' = resFrames \/ Len(resFrames) = 0]_vars

C18_Witness ==
    /\ Len(sSent) = 2 /\ sSent[1] # sSent[2]
    /\ sCallback = "sends" /\ Len(sOnmessage) = 1
    /\ EchoReply(sOnmessage[1].msg) \in {sSent[1], sSent[2]}
    /\ MessageFrames(resFrames) = <<MessageFrame(sSent[1]), MessageFrame(sSent[2])>>

\* C19: onmessage is invoked for a POST after the 202 response of that POST
\* was written.
C19_AckBeforeDispatch ==
    \A i \in 1..Len(sOnmessage) : sOnmessage[i].acked

\* C20: a schema-valid POST taken on an open transport is answered 202 once
\* its body has ended, whether the callback returns, throws, or calls a
\* send() that fails; no request ever gets a second status.
C20_CallbackNeverChangesStatus ==
    \A r \in ReqIds :
      /\ Len(reqs[r].status) <= 1
      /\ (/\ reqs[r].st = "done" /\ reqs[r].hpm = "resolved"
          /\ reqs[r].ctype \in JsonContentTypes
          /\ reqs[r].body \in Texts(ValidMsgs))
         => reqs[r].status = <<202>>

C20_Witness ==
    \E r \in ReqIds :
      /\ reqs[r].st = "done" /\ reqs[r].status = <<202>>
      /\ OnmessageOf(r) # {}
      /\ sCallback = "sends" /\ ret = Ret("server.send", "Not connected") /\ sSends = 1
      /\ sSent = <<>>

\* C21: every call of close() on the client invokes onclose once more,
\* whatever the state of the transport: the count of onclose invocations is
\* the count of close() calls plus the closes of failed handshakes.
C21_EveryCloseSignals ==
    [][/\ cCloses' # cCloses => cOnclose' = cOnclose + 1
       /\ cOnclose' >= cCloses']_vars

C21_Witness ==
    /\ cCloses = 2
    /\ cOnclose = 3
    /\ eventSource = "closed" /\ startPromise = "rejected" /\ endpoint.ok

\* The text of a request: what was read of its body and what is to come.
RestOf(chunks) ==
    IF Len(chunks) = 0 THEN <<>>
    ELSE IF Len(chunks) = 1 THEN chunks[1]
    ELSE IF Len(chunks) = 2 THEN chunks[1] \o chunks[2]
    ELSE chunks[1] \o chunks[2] \o chunks[3]
TextOf(q) == q.body \o RestOf(q.chunks)

\* C22: POSTs of one session are processed independently: a step of one
\* request changes no other request, the body of a request is made of its
\* own chunks only, each request gets one status when its body ends, and
\* each valid one causes its own invocation of onmessage with its own
\* message, also when another request carried the same message.
C22_PostsAreIndependent ==
    [][\A r \in ReqIds :
         /\ reqs'[r] # reqs[r] => \A q \in ReqIds \ {r} : reqs'[q] = reqs[q]
         /\ reqs[r].st \in {"inflight", "reading"} => TextOf(reqs'[r]) = TextOf(reqs[r])
         /\ Len(reqs'[r].status) <= 1
         /\ EndStep(r)
            => /\ Len(reqs'[r].status) = 1
               /\ reqs[r].body \in Texts(ValidMsgs)
                  => /\ Len(sOnmessage') = Len(sOnmessage) + 1
                     /\ sOnmessage'[Len(sOnmessage')].req = r
                     /\ sOnmessage'[Len(sOnmessage')].msg = JSONparse(reqs[r].body)
                     /\ SubSeq(sOnmessage', 1, Len(sOnmessage)) = sOnmessage]_vars

C22_Witness ==
    /\ \A r \in {1, 2} :
         /\ reqs[r].st = "done" /\ reqs[r].status = <<202>>
         /\ reqs[r].body = JSONstringify(ValidRequest)
    /\ Len(sOnmessage) = 2
    /\ sOnmessage[1].req = 2 /\ sOnmessage[2].req = 1
    /\ sOnmessage[1].msg = ValidRequest /\ sOnmessage[2].msg = ValidRequest

\* The step in which the HTTP layer routes the POST of request r.
Routed(r) == reqs[r].st = "inflight" /\ reqs'[r].st # "inflight"

\* C23: the session table holds the transport's session id exactly while
\* its stream is open; a POST that names the open session is handed to the
\* transport, a POST that names a closed or unknown session is answered 404
\* and is not handed to any transport.
C23_TableHoldsOpenSessions ==
    [][/\ connections' = (IF sseResponse' THEN {sessionId'} ELSE {})
       /\ \A r \in ReqIds :
            /\ Routed(r)
               => IF reqs[r].session = sessionId /\ sseResponse
                  THEN reqs'[r].hpm = "resolved" /\ reqs'[r].status = <<>>
                  ELSE /\ reqs'[r].status = <<404>>
                       /\ reqs'[r].hpm = "not called"
                       /\ reqs'[r].st = "done"
            /\ reqs'[r].hpm # "SSE connection not established"]_vars

C23_Witness ==
    \E r \in ReqIds :
      /\ reqs[r].session = sessionId /\ reqs[r].status = <<404>>
      /\ reqs[r].hpm = "not called"
      /\ resHeads = 1 /\ ~sseResponse /\ connections = {}

\* The messages of the successful sends whose events the client has been
\* handed (the first event of the stream is the handshake).
SentDelivered == IF delivered <= 1 THEN <<>> ELSE SubSeq(sSent, 1, delivered - 1)
ValidSentDelivered == SelectSeq(SentDelivered, SchemaOk)

\* C24 as claimed: for every schema-valid message passed to send(), the
\* message the client's onmessage receives for its event is equal to it.
C24_RoundTripIsIdentity == cOnmessage = ValidSentDelivered

\* C24, amended: the client's onmessage is invoked once for the event of
\* every schema-valid message, in order; the message received is equal to
\* the message sent when its values are JSON values, and a number JSON has
\* no text for arrives as null.
C24_RoundTripOnJsonValues ==
    /\ Len(cOnmessage) = Len(ValidSentDelivered)
    /\ \A i \in 1..Len(cOnmessage) :
         IF ValidSentDelivered[i] \in ValidMsgs
         THEN cOnmessage[i] = ValidSentDelivered[i]
         ELSE /\ ValidSentDelivered[i] = NaNRequest
              /\ cOnmessage[i] = createRequest("2", "echo", "{x:null}")

C24_Witness ==
    /\ delivered = 3
    /\ Len(cOnmessage) = 2
    /\ cOnmessage[1] = createRequest("1", "echo", "{x}")
    /\ cOnmessage[2] = createNotification("ping", UNDEF)
    /\ cOnmessage = sSent

C26_OneStatusPerRequest ==
    [][\A r \in ReqIds :
         /\ PostCall(r)
            => IF sseResponse
               THEN reqs'[r].status = <<>> /\ reqs'[r].st = "reading"
               ELSE reqs'[r].status = <<500>> /\ reqs'[r].st = "done"
         /\ reqs[r].st = "reading" /\ reqs'[r].st = "reading" => reqs'[r].status = <<>>
         /\ EndStep(r) => reqs'[r].status \in {<<400>>, <<202>>}
         /\ reqs[r].st = "done" => reqs'[r] = reqs[r]
         /\ reqs'[r].hpm \in {"resolved", "SSE connection not established"}
            => reqs'[r].status \in {<<>>, <<500>>, <<400>>, <<202>>}]_vars

C26_Witness ==
    /\ \E r \in ReqIds : reqs[r].status = <<400>> /\ reqs[r].st = "done"
                          /\ reqs[r].hpm = "resolved"
    /\ ~sseResponse /\ sCloses = 1

\* C27: onmessage is invoked only while the stream is open: a request whose
\* body ends after the stream was closed is not dispatched to onmessage.
C27_NoDispatchAfterClose ==
    [][\A r \in ReqIds : (EndStep(r) /\ ~sseResponse) => sOnmessage' = sOnmessage]_vars

====
